---- MODULE Spec2Model ----
(***************************************************************************)
(* Appointment lifecycle of the health-connect UI: the appointment list    *)
(* page (src/src/pages/Appointments.tsx), the appointment detail dialog in *)
(* its three versions (src/src/components/appointments/                    *)
(* AppointmentDetailDialog.tsx with seven statuses, src/unnamed/part_002   *)
(* with five, src/unnamed/part_003 with four) and the REST requests of     *)
(* src/src/services/api.ts, against one appointment held by the backend.   *)
(***************************************************************************)
EXTENDS Naturals, FiniteSets, Sequences, TLC

\* ------------------------------------------------------------------ bounds

\* Requests (of the list page's buttons and of the dialog's handlers) that
\* may await their answer at once.
MaxInFlight == 1

\* The same, in the behaviours of the seven-state page where a request of
\* the list and requests of the dialog are awaited together.
MaxBusy == 2

\* The days of the calendar, 1..MaxDay: the clock starts on day 1, where the
\* appointment is scheduled, and runs to day MaxDay.
MaxDay == 2

\* ------------------------------------------------------------- value sets

\* The dialog versions: seven-state, five-state and four-state.
Variants == {"V7", "V5", "V4"}

\* user?.role; "NONE" stands for a null user or an undefined role.
Roles == {"ADMIN", "DOCTOR", "HELPDESK", "PATIENT", "NONE"}

\* data.roles[0] of the sign-in response: the three role strings of the
\* backend, one of them in another case, and strings that name no role of
\* the user interface.
BackendRoles == {"ROLE_ADMIN", "ROLE_DOCTOR", "ROLE_HELPDESK",
                 "role_admin", "ROLE_PATIENT"}

\* No sign-in response was received.
NoBackendRole == ""

\* mapBackendRoleToFrontendRole that compares without regard to case.
mapBackendRoleIgnoringCase(backendRole) ==
  IF backendRole \in {"ROLE_ADMIN", "role_admin"} THEN "ADMIN"
  ELSE IF backendRole = "ROLE_DOCTOR" THEN "DOCTOR"
  ELSE IF backendRole = "ROLE_HELPDESK" THEN "HELPDESK"
  ELSE "HELPDESK"

\* The switch compares with ===, so by case; its default is HELPDESK.
mapBackendRoleToFrontendRole(backendRole) ==
  IF backendRole = "ROLE_ADMIN" THEN "ADMIN"
  ELSE IF backendRole = "ROLE_DOCTOR" THEN "DOCTOR"
  ELSE IF backendRole = "ROLE_HELPDESK" THEN "HELPDESK"
  ELSE "HELPDESK"

allStatuses == {"SCHEDULED", "CONFIRMED", "IN_PROGRESS", "COMPLETED",
                "CANCELLED", "RESCHEDULED", "NO_SHOW"}

allStatuses5 == {"SCHEDULED", "IN_PROGRESS", "COMPLETED", "CANCELLED", "NOSHOW"}

allStatuses4 == {"SCHEDULED", "IN_PROGRESS", "COMPLETED", "CANCELLED"}

StatusesOf(v) ==
  IF v = "V7" THEN allStatuses ELSE IF v = "V5" THEN allStatuses5 ELSE allStatuses4

\* Free-text inputs: the notes typed into the notes field, and the
\* cancellation reasons typed into the reason field (one of them blank,
\* which String.trim() reduces to the empty string the field starts with).
NoteTexts == {"note"}

ReasonTexts == {" ", "reason"}

\* String.prototype.trim on the reason texts.
trim(s) == IF s = " " THEN "" ELSE s

\* The times of day the time input is set to.
Times == {"10:00"}

\* The messages of the errors a request fails with: apiCall's message for a
\* response that is not ok and has no message of its own (here a 409), and
\* fetch's message when no response arrives.
Failures == {"API Error: 409", "Failed to fetch"}

\* No timestamp. A timestamp is <<day, separator, time of day, seconds>>.
NoDate == <<0, "", "", "">>

\* No appointment: an empty list, a null selectedAppointment.
NoAppt == [status |-> "none", notes |-> "", cancellationReason |-> "",
           appointmentDateTime |-> NoDate]

\* ------------------------------------------------- the session's values

\* The versions of the AuthProvider: src/src/contexts/AuthContext.tsx, whose
\* user carries the backend's roles and whose token is kept by the api
\* module of src/unnamed/part_006, and src/unnamed/part_011, whose state
\* carries the token.
Providers == {"roles", "token"}

\* A null user, a null token of the reducer state.
NoUser == "null"

NoStateToken == "null"

\* localStorage 'token': nothing, or a value of some form with, where the
\* form has a JWT whose payload decodes, the day its exp claim names.
NoStoredToken == [form |-> "absent", exp |-> 0]

\* localStorage 'user': nothing, the JSON of a user, or text that is no JSON.
NoStoredUser == "absent"

StoredUsers == {NoStoredUser, "user", "unparsable"}

\* No apiCall was made.
NoCall == [sent |-> FALSE, status |-> 0, outcome |-> "none"]

\* initialState of src/src/contexts/AuthContext.tsx.
initialState ==
  [user |-> NoUser, isAuthenticated |-> FALSE, isLoading |-> TRUE]

\* initialState of src/unnamed/part_011.
initialStateToken ==
  [user |-> NoUser, token |-> NoStateToken, isLoading |-> TRUE,
   isAuthenticated |-> FALSE]

\* --------------------------------------------- seven-state detail dialog

\* canUpdateStatus with the help desk's rule as the rule of every other role.
canUpdateStatusOthersAsHelpdesk(role, status) ==
  IF role = "ADMIN" THEN TRUE
  ELSE IF role = "DOCTOR" THEN status \in {"SCHEDULED", "CONFIRMED", "IN_PROGRESS"}
  ELSE status \in {"SCHEDULED"}

canUpdateStatus(role, status) ==
  IF role = "ADMIN" THEN TRUE
  ELSE IF role = "DOCTOR" THEN status \in {"SCHEDULED", "CONFIRMED", "IN_PROGRESS"}
  ELSE IF role = "HELPDESK" THEN status \in {"SCHEDULED"}
  ELSE FALSE

\* getAvailableStatuses with the four-state dialog's rule for a doctor on a
\* SCHEDULED appointment, which offers CANCELLED.
getAvailableStatusesDoctorCancels(role, status) ==
  IF role = "ADMIN" THEN allStatuses
  ELSE IF role = "DOCTOR" /\ status = "SCHEDULED"
    THEN {"SCHEDULED", "IN_PROGRESS", "CANCELLED"}
  ELSE IF role = "DOCTOR" /\ status = "CONFIRMED"
    THEN {"CONFIRMED", "IN_PROGRESS", "NO_SHOW"}
  ELSE IF role = "DOCTOR" /\ status = "IN_PROGRESS"
    THEN {"IN_PROGRESS", "COMPLETED"}
  ELSE IF role = "HELPDESK" /\ status = "SCHEDULED"
    THEN {"SCHEDULED", "CONFIRMED"}
  ELSE {status}

getAvailableStatuses(role, status) ==
  IF role = "ADMIN" THEN allStatuses
  ELSE IF role = "DOCTOR" /\ status = "SCHEDULED"
    THEN {"SCHEDULED", "CONFIRMED", "IN_PROGRESS", "NO_SHOW"}
  ELSE IF role = "DOCTOR" /\ status = "CONFIRMED"
    THEN {"CONFIRMED", "IN_PROGRESS", "NO_SHOW"}
  ELSE IF role = "DOCTOR" /\ status = "IN_PROGRESS"
    THEN {"IN_PROGRESS", "COMPLETED"}
  ELSE IF role = "HELPDESK" /\ status = "SCHEDULED"
    THEN {"SCHEDULED", "CONFIRMED"}
  ELSE {status}

\* The footer's condition without its canUpdateStatus() conjunct.
showCancelButtonAnyRole(role, status) ==
  status \in {"SCHEDULED", "CONFIRMED"}

\* The Reschedule and Cancel buttons of the dialog footer.
showCancelButton(role, status) ==
  status \in {"SCHEDULED", "CONFIRMED"} /\ canUpdateStatus(role, status)

\* ---------------------------------------------- five-state detail dialog

canUpdateStatus5(role, status) ==
  IF role = "ADMIN" THEN TRUE
  ELSE IF role = "DOCTOR" THEN status \in {"SCHEDULED", "IN_PROGRESS"}
  ELSE IF role = "HELPDESK" THEN status \in {"SCHEDULED"}
  ELSE FALSE

getAvailableStatuses5(role, status) ==
  IF role = "ADMIN" THEN allStatuses5
  ELSE IF role = "DOCTOR" /\ status = "SCHEDULED"
    THEN {"SCHEDULED", "IN_PROGRESS", "NOSHOW"}
  ELSE IF role = "DOCTOR" /\ status = "IN_PROGRESS"
    THEN {"IN_PROGRESS", "COMPLETED"}
  ELSE IF role = "HELPDESK" /\ status = "SCHEDULED"
    THEN {"SCHEDULED"}
  ELSE {status}

showCancelButton5(role, status) ==
  status \in {"SCHEDULED"} /\ canUpdateStatus5(role, status)

\* ---------------------------------------------- four-state detail dialog

canUpdateStatus4(role, status) ==
  IF role = "ADMIN" THEN TRUE
  ELSE IF role = "DOCTOR" THEN status \in {"SCHEDULED", "IN_PROGRESS"}
  ELSE IF role = "HELPDESK" THEN status \in {"SCHEDULED"}
  ELSE FALSE

getAvailableStatuses4(role, status) ==
  IF role = "ADMIN" THEN allStatuses4
  ELSE IF role = "DOCTOR" /\ status = "SCHEDULED"
    THEN {"SCHEDULED", "IN_PROGRESS", "CANCELLED"}
  ELSE IF role = "DOCTOR" /\ status = "IN_PROGRESS"
    THEN {"IN_PROGRESS", "COMPLETED"}
  ELSE IF role = "HELPDESK" /\ status = "SCHEDULED"
    THEN {"SCHEDULED", "CANCELLED"}
  ELSE {status}

showCancelButton4(role, status) ==
  status = "SCHEDULED" /\ canUpdateStatus4(role, status)

\* ------------------------------------------------- the list page's rules

\* canUpdateStatus of the list page with the doctor's statuses given to the
\* help desk too.
canUpdateStatusListHelpdeskAsDoctor(role, status) ==
  IF role = "ADMIN" THEN TRUE
  ELSE IF role \in {"DOCTOR", "HELPDESK"}
    THEN status \in {"SCHEDULED", "CONFIRMED", "IN_PROGRESS"}
  ELSE FALSE

\* canUpdateStatus of the list page: the guard of the quick-action buttons.
canUpdateStatusList(role, status) ==
  IF role = "ADMIN" THEN TRUE
  ELSE IF role = "DOCTOR" THEN status \in {"SCHEDULED", "CONFIRMED", "IN_PROGRESS"}
  ELSE IF role = "HELPDESK" THEN status \in {"SCHEDULED"}
  ELSE FALSE

\* The statuses the row's quick-action buttons request: Confirm and Start
\* on a SCHEDULED row, Start and No Show on a CONFIRMED row, Complete on an
\* IN_PROGRESS row, shown when canUpdateStatus(row status) holds.
quickActions(role, status) ==
  IF ~canUpdateStatusList(role, status) THEN {}
  ELSE IF status = "SCHEDULED" THEN {"CONFIRMED", "IN_PROGRESS"}
  ELSE IF status = "CONFIRMED" THEN {"IN_PROGRESS", "NO_SHOW"}
  ELSE IF status = "IN_PROGRESS" THEN {"COMPLETED"}
  ELSE {}

\* -------------------------------------------------- the rules by version

CanUpdate(v, role, status) ==
  IF v = "V7" THEN canUpdateStatus(role, status)
  ELSE IF v = "V5" THEN canUpdateStatus5(role, status)
  ELSE canUpdateStatus4(role, status)

Available(v, role, status) ==
  IF v = "V7" THEN getAvailableStatuses(role, status)
  ELSE IF v = "V5" THEN getAvailableStatuses5(role, status)
  ELSE getAvailableStatuses4(role, status)

ShowCancel(v, role, status) ==
  IF v = "V7" THEN showCancelButton(role, status)
  ELSE IF v = "V5" THEN showCancelButton5(role, status)
  ELSE showCancelButton4(role, status)

\* ------------------------------------------------------------------ state

VARIABLES
  variant,              \* which version of the detail dialog is deployed
  role,                 \* user?.role of the session
  backendRole,          \* data.roles[0] of the sign-in that set the role
  now,                  \* the current day
  srv,                  \* the appointment as the backend holds it
  appointments,         \* the list page's copy, as last fetched
  selectedAppointment,  \* the page's selectedAppointment
  sameRef,              \* selectedAppointment is the list's current object
  showDetailDialog,     \* the page's showDetailDialog
  status,               \* the dialog's status selector
  notes,                \* the dialog's notes field
  cancelReason,         \* the dialog's cancelReason field
  showCancelDialog,
  showRescheduleDialog,
  rescheduleDate,       \* 0 when undefined
  rescheduleTime,       \* "" when not set
  isLoading,            \* the dialog's isLoading
  inFlight,             \* the requests awaiting their answer
  toast,                \* the last toast shown
  provider,             \* which version of the AuthProvider is deployed
  authState,            \* the AuthProvider's reducer state
  authPc,               \* where the AuthProvider is: mounting, idle, signing in
  tokenStore,           \* localStorage 'token'
  userStore,            \* localStorage 'user'
  lastCall              \* how the last apiCall went

vars == <<variant, role, backendRole, now, srv, appointments, selectedAppointment, sameRef,
          showDetailDialog, status, notes, cancelReason, showCancelDialog,
          showRescheduleDialog, rescheduleDate, rescheduleTime, isLoading,
          inFlight, toast, provider, authState, authPc, tokenStore, userStore,
          lastCall>>

\* The AuthProvider and the browser's storage.
auth == <<provider, authState, authPc, tokenStore, userStore, lastCall>>

config == <<variant, role, backendRole, auth>>

local == <<status, notes, cancelReason, showCancelDialog, showRescheduleDialog,
           rescheduleDate, rescheduleTime, isLoading>>

\* A request that carries the whole appointment shown, its date and time
\* included, where the handler names none.
RequestWholeAppointment(kind, st, nt, thenNotes, reason, dateTime) ==
  [kind |-> kind, live |-> TRUE, status |-> st, notes |-> nt,
   thenNotes |-> thenNotes, reason |-> reason,
   dateTime |-> IF dateTime = NoDate
                  THEN selectedAppointment.appointmentDateTime
                  ELSE dateTime]

\* A request whose body leaves the reason out.
RequestWithoutReason(kind, st, nt, thenNotes, reason, dateTime) ==
  [kind |-> kind, live |-> TRUE, status |-> st, notes |-> nt,
   thenNotes |-> thenNotes, reason |-> "", dateTime |-> dateTime]

\* A request awaiting its answer: kind names the handler and the endpoint,
\* live says that the dialog instance whose handler awaits it is still
\* mounted, the other fields are what the handler's closure holds.
Request(kind, st, nt, thenNotes, reason, dateTime) ==
  [kind |-> kind, live |-> TRUE, status |-> st, notes |-> nt,
   thenNotes |-> thenNotes, reason |-> reason, dateTime |-> dateTime]

\* The appointment a freshly loaded page finds: any status of the deployed
\* version, with a cancellation reason exactly when it is CANCELLED.
InitialAppointments(v) ==
  { [status |-> s, notes |-> "",
     cancellationReason |-> IF s = "CANCELLED" THEN "reason" ELSE "",
     appointmentDateTime |-> <<1, " ", "09:00", "">>] : s \in StatusesOf(v) }

\* The AuthProvider's own state and the browser's storage are followed in
\* SpecAuth; the page is given the user's role only.
AuthNotFollowed ==
  /\ provider = "token"
  /\ authState = initialStateToken
  /\ authPc = "mount"
  /\ tokenStore = NoStoredToken
  /\ userStore = NoStoredUser
  /\ lastCall = NoCall

Init ==
  /\ variant \in Variants
  /\ role \in {"NONE", "PATIENT"}
  /\ backendRole = NoBackendRole
  /\ now = 1
  /\ srv \in InitialAppointments(variant)
  /\ appointments = NoAppt
  /\ selectedAppointment = NoAppt
  /\ sameRef = FALSE
  /\ showDetailDialog = FALSE
  /\ status = ""
  /\ notes = ""
  /\ cancelReason = ""
  /\ showCancelDialog = FALSE
  /\ showRescheduleDialog = FALSE
  /\ rescheduleDate = 0
  /\ rescheduleTime = ""
  /\ isLoading = FALSE
  /\ inFlight = <<>>
  /\ toast = "none"
  /\ AuthNotFollowed

\* ------------------------------------------------------------ sign-in

\* login with the sign-in answered, before the list page is mounted: the
\* user's role is mapped from the first role string of the response.
login ==
  /\ role = "NONE"
  /\ appointments = NoAppt
  /\ \E b \in BackendRoles :
       /\ backendRole' = b
       /\ role' = mapBackendRoleToFrontendRole(b)
  /\ toast' = "none"
  /\ UNCHANGED <<variant, auth, now, srv, appointments, selectedAppointment,
                 sameRef, showDetailDialog, local, inFlight>>

\* ------------------------------------------------------ the list page

\* The detail dialog is unmounted while the page shows its loading spinner
\* and mounted again after it: its state starts over, and the effect on
\* [appointment] copies notes and status from selectedAppointment. The
\* handler of a request still awaited belongs to the unmounted instance.
Remount ==
  /\ status' = IF selectedAppointment = NoAppt THEN "" ELSE selectedAppointment.status
  /\ notes' = IF selectedAppointment = NoAppt THEN "" ELSE selectedAppointment.notes
  /\ cancelReason' = ""
  /\ showCancelDialog' = FALSE
  /\ showRescheduleDialog' = FALSE
  /\ rescheduleDate' = 0
  /\ rescheduleTime' = ""
  /\ isLoading' = FALSE

Orphaned(q) == [j \in 1..Len(q) |-> [q[j] EXCEPT !.live = FALSE]]

RemoveAt(q, i) == [j \in 1..(Len(q) - 1) |-> IF j < i THEN q[j] ELSE q[j + 1]]

\* fetchAppointments with the GET answered (ok) or failed: the list is
\* replaced by the backend's appointment, or kept and an error is shown.
Refetch(ok, srvAfter) ==
  /\ appointments' = IF ok THEN srvAfter ELSE appointments
  /\ sameRef' = IF ok THEN FALSE ELSE sameRef
  /\ Remount

\* fetchAppointments as the page's mount runs it: the first load of the list.
fetchAppointments ==
  /\ appointments = NoAppt
  /\ \E ok \in BOOLEAN :
       /\ Refetch(ok, srv)
       /\ toast' = IF ok THEN "none" ELSE "load-error"
  /\ inFlight' = Orphaned(inFlight)
  /\ UNCHANGED <<config, now, srv, selectedAppointment, showDetailDialog>>

\* A row of the list is clicked: the dialog opens on that appointment, and
\* the dialog's effect resets its fields when the appointment object changed.
handleAppointmentClick ==
  /\ appointments # NoAppt
  /\ ~showDetailDialog
  /\ selectedAppointment' = appointments
  /\ showDetailDialog' = TRUE
  /\ sameRef' = TRUE
  /\ IF sameRef
       THEN UNCHANGED <<status, notes, cancelReason, rescheduleDate, rescheduleTime>>
       ELSE /\ status' = appointments.status
            /\ notes' = appointments.notes
            /\ cancelReason' = ""
            /\ rescheduleDate' = 0
            /\ rescheduleTime' = ""
  /\ toast' = "none"
  /\ UNCHANGED <<config, now, srv, appointments, showCancelDialog,
                 showRescheduleDialog, isLoading, inFlight>>

\* A quick-action button of the row: handleStatusUpdate up to its await.
handleStatusUpdateUpTo(max) ==
  /\ variant = "V7"
  /\ appointments # NoAppt
  /\ ~showDetailDialog
  /\ Len(inFlight) < max
  /\ \E newStatus \in quickActions(role, appointments.status) :
       inFlight' = Append(inFlight,
                          Request("quick", newStatus, "", FALSE, "", NoDate))
  /\ toast' = "none"
  /\ UNCHANGED <<config, now, srv, appointments, selectedAppointment, sameRef,
                 showDetailDialog, local>>

\* handleStatusUpdate where at most MaxInFlight requests are awaited at once.
handleStatusUpdate == handleStatusUpdateUpTo(MaxInFlight)

\* PUT /appointments/{id}/status/{status} as the backend applies it.
ServerUpdateStatus(a, newStatus) == [a EXCEPT !.status = newStatus]

\* handleStatusUpdate after its await: on success a toast and a refetch of
\* the list (its GET answered), on failure a toast only.
handleStatusUpdateDone ==
  \E i \in 1..Len(inFlight) : \E ok \in BOOLEAN :
    /\ inFlight[i].kind = "quick"
    /\ IF ok
         THEN /\ srv' = ServerUpdateStatus(srv, inFlight[i].status)
              /\ Refetch(TRUE, srv')
              /\ toast' = "status-updated"
              /\ inFlight' = Orphaned(RemoveAt(inFlight, i))
         ELSE /\ toast' \in Failures
              /\ inFlight' = RemoveAt(inFlight, i)
              /\ UNCHANGED <<srv, appointments, sameRef, local>>
    /\ UNCHANGED <<config, now, selectedAppointment, showDetailDialog>>

\* ------------------------------------------------- the detail dialog

\* The appointment the dialog shows.
appointment == selectedAppointment

\* The main dialog is open and no dialog lies over it.
MainDialog ==
  /\ showDetailDialog
  /\ appointment # NoAppt
  /\ ~showCancelDialog
  /\ ~showRescheduleDialog

\* The status selector, rendered when canUpdateStatus(), with one item per
\* member of getAvailableStatuses().
setStatus ==
  /\ MainDialog
  /\ CanUpdate(variant, role, appointment.status)
  /\ \E statusOption \in Available(variant, role, appointment.status) :
       status' = statusOption
  /\ toast' = "none"
  /\ UNCHANGED <<config, now, srv, appointments, selectedAppointment, sameRef,
                 showDetailDialog, notes, cancelReason, showCancelDialog,
                 showRescheduleDialog, rescheduleDate, rescheduleTime, isLoading,
                 inFlight>>

\* The notes field, disabled unless canUpdateStatus().
setNotes ==
  /\ MainDialog
  /\ CanUpdate(variant, role, appointment.status)
  /\ \E text \in NoteTexts : notes' = text
  /\ toast' = "none"
  /\ UNCHANGED <<config, now, srv, appointments, selectedAppointment, sameRef,
                 showDetailDialog, status, cancelReason, showCancelDialog,
                 showRescheduleDialog, rescheduleDate, rescheduleTime, isLoading,
                 inFlight>>

\* The Close button: onOpenChange(false).
closeDetailDialog ==
  /\ MainDialog
  /\ showDetailDialog' = FALSE
  /\ toast' = "none"
  /\ UNCHANGED <<config, now, srv, appointments, selectedAppointment, sameRef,
                 local, inFlight>>

\* The Update button is rendered when canUpdateStatus() and the status or
\* the notes were edited, and is disabled while isLoading.
UpdateButton ==
  /\ MainDialog
  /\ CanUpdate(variant, role, appointment.status)
  /\ (status # appointment.status \/ notes # appointment.notes)
  /\ ~isLoading

\* handleUpdateAppointment of the seven-state dialog up to its first await:
\* the status request when the status was edited, else the notes request.
handleUpdateAppointmentUpTo(max) ==
  /\ variant = "V7"
  /\ UpdateButton
  /\ Len(inFlight) < max
  /\ isLoading' = TRUE
  /\ inFlight' = Append(inFlight,
       IF status # appointment.status
         THEN Request("updateStatus", status, notes,
                      notes # appointment.notes, "", NoDate)
         ELSE Request("updateNotes", status, notes, FALSE, "", NoDate))
  /\ toast' = "none"
  /\ UNCHANGED <<config, now, srv, appointments, selectedAppointment, sameRef,
                 showDetailDialog, status, notes, cancelReason, showCancelDialog,
                 showRescheduleDialog, rescheduleDate, rescheduleTime>>

\* handleUpdateAppointment where at most MaxInFlight requests are awaited at once.
handleUpdateAppointment == handleUpdateAppointmentUpTo(MaxInFlight)

\* handleSubmit of the five-state dialog up to its await: one PUT
\* /appointments/{id} carrying the status and the notes.
handleSubmit ==
  /\ variant = "V5"
  /\ UpdateButton
  /\ Len(inFlight) < MaxInFlight
  /\ isLoading' = TRUE
  /\ inFlight' = Append(inFlight,
                        Request("update", status, notes, FALSE, "", NoDate))
  /\ toast' = "none"
  /\ UNCHANGED <<config, now, srv, appointments, selectedAppointment, sameRef,
                 showDetailDialog, status, notes, cancelReason, showCancelDialog,
                 showRescheduleDialog, rescheduleDate, rescheduleTime>>

\* handleUpdateAppointment of the four-state dialog up to its await: a
\* one-second timer stands in for the request.
handleUpdateAppointment4 ==
  /\ variant = "V4"
  /\ UpdateButton
  /\ Len(inFlight) < MaxInFlight
  /\ isLoading' = TRUE
  /\ inFlight' = Append(inFlight,
                        Request("mockUpdate", status, notes, FALSE, "", NoDate))
  /\ toast' = "none"
  /\ UNCHANGED <<config, now, srv, appointments, selectedAppointment, sameRef,
                 showDetailDialog, status, notes, cancelReason, showCancelDialog,
                 showRescheduleDialog, rescheduleDate, rescheduleTime>>

\* PUT /appointments/{id} as the backend applies it: the fields sent, of
\* appointmentDateTime, status and notes.
ServerUpdate(a, req) ==
  LET dated == IF req.dateTime = NoDate THEN a
               ELSE [a EXCEPT !.appointmentDateTime = req.dateTime]
  IN IF req.kind = "updateNotes" THEN [dated EXCEPT !.notes = req.notes]
     ELSE [dated EXCEPT !.status = req.status, !.notes = req.notes]

\* The end of a successful handler that also writes the backend's new
\* fields into the appointment object it was given.
SucceedInPlace(i, message) ==
  /\ Refetch(TRUE, srv')
  /\ toast' = message
  /\ showDetailDialog' = FALSE
  /\ inFlight' = Orphaned(RemoveAt(inFlight, i))
  /\ selectedAppointment' = srv'
  /\ UNCHANGED <<config, now>>

\* The end of a handler whose requests all succeeded: the success toast,
\* onAppointmentUpdated() (the page's fetchAppointments, its GET answered)
\* and onOpenChange(false).
Succeed(i, message) ==
  /\ Refetch(TRUE, srv')
  /\ toast' = message
  /\ showDetailDialog' = FALSE
  /\ inFlight' = Orphaned(RemoveAt(inFlight, i))
  /\ UNCHANGED <<config, now, selectedAppointment>>

\* The end of a failed handler that also calls onAppointmentUpdated().
FailAndRefresh(i) ==
  /\ toast' \in Failures
  /\ Refetch(TRUE, srv)
  /\ inFlight' = Orphaned(RemoveAt(inFlight, i))
  /\ UNCHANGED <<config, now, srv, selectedAppointment, showDetailDialog>>

\* The end of a handler whose request failed: the toast of the error's
\* message, and setIsLoading(false) on the handler's own dialog instance.
Fail(i) ==
  /\ toast' \in Failures
  /\ isLoading' = IF inFlight[i].live THEN FALSE ELSE isLoading
  /\ inFlight' = RemoveAt(inFlight, i)
  /\ UNCHANGED <<config, now, srv, appointments, selectedAppointment, sameRef,
                 showDetailDialog, status, notes, cancelReason, showCancelDialog,
                 showRescheduleDialog, rescheduleDate, rescheduleTime>>

\* handleUpdateAppointment after the status request: the notes request
\* follows when the notes were edited too.
handleUpdateAppointmentStatusDone ==
  \E i \in 1..Len(inFlight) : \E ok \in BOOLEAN :
    /\ inFlight[i].kind = "updateStatus"
    /\ IF ~ok THEN Fail(i)
       ELSE /\ srv' = ServerUpdateStatus(srv, inFlight[i].status)
            /\ IF inFlight[i].thenNotes
                 THEN /\ inFlight' = [inFlight EXCEPT ![i].kind = "updateNotes",
                                                      ![i].thenNotes = FALSE]
                      /\ UNCHANGED <<config, now, appointments, selectedAppointment,
                                     sameRef, showDetailDialog, local, toast>>
                 ELSE Succeed(i, "updated")

\* handleUpdateAppointment after the notes request, handleSubmit after its
\* request.
handleUpdateAppointmentDone ==
  \E i \in 1..Len(inFlight) : \E ok \in BOOLEAN :
    /\ inFlight[i].kind \in {"updateNotes", "update"}
    /\ IF ~ok THEN Fail(i)
       ELSE /\ srv' = ServerUpdate(srv, inFlight[i])
            /\ Succeed(i, "updated")

\* The four-state dialog's timers run out: nothing was sent.
mockDone ==
  \E i \in 1..Len(inFlight) :
    /\ inFlight[i].kind \in {"mockUpdate", "mockCancel"}
    /\ srv' = srv
    /\ Succeed(i, IF inFlight[i].kind = "mockUpdate" THEN "updated" ELSE "cancelled")

\* The Cancel button of the seven-state and five-state dialogs' footer,
\* disabled while isLoading, opens the cancel dialog.
openCancelDialog ==
  /\ variant \in {"V7", "V5"}
  /\ MainDialog
  /\ ShowCancel(variant, role, appointment.status)
  /\ ~isLoading
  /\ showCancelDialog' = TRUE
  /\ toast' = "none"
  /\ UNCHANGED <<config, now, srv, appointments, selectedAppointment, sameRef,
                 showDetailDialog, status, notes, cancelReason,
                 showRescheduleDialog, rescheduleDate, rescheduleTime, isLoading,
                 inFlight>>

setCancelReason ==
  /\ showCancelDialog
  /\ \E text \in ReasonTexts : cancelReason' = text
  /\ toast' = "none"
  /\ UNCHANGED <<config, now, srv, appointments, selectedAppointment, sameRef,
                 showDetailDialog, status, notes, showCancelDialog,
                 showRescheduleDialog, rescheduleDate, rescheduleTime, isLoading,
                 inFlight>>

\* The Back button of the cancel dialog.
closeCancelDialog ==
  /\ showCancelDialog
  /\ showCancelDialog' = FALSE
  /\ toast' = "none"
  /\ UNCHANGED <<config, now, srv, appointments, selectedAppointment, sameRef,
                 showDetailDialog, status, notes, cancelReason,
                 showRescheduleDialog, rescheduleDate, rescheduleTime, isLoading,
                 inFlight>>

\* handleCancelAppointment of the seven-state and five-state dialogs up to
\* its await, called on whatever the reason field holds: the handler returns
\* early on a reason that trims to nothing (its button is disabled on such a
\* reason too, and while isLoading).
handleCancelAppointmentUpTo(max) ==
  /\ variant \in {"V7", "V5"}
  /\ showCancelDialog
  /\ ~isLoading
  /\ IF trim(cancelReason) = ""
       THEN /\ toast' = "missing-reason"
            /\ UNCHANGED <<isLoading, inFlight>>
       ELSE /\ Len(inFlight) < max
            /\ isLoading' = TRUE
            /\ inFlight' = Append(inFlight,
                 Request("cancel", "", "", FALSE, cancelReason, NoDate))
            /\ toast' = "none"
  /\ UNCHANGED <<config, now, srv, appointments, selectedAppointment, sameRef,
                 showDetailDialog, status, notes, cancelReason, showCancelDialog,
                 showRescheduleDialog, rescheduleDate, rescheduleTime>>

\* handleCancelAppointment where at most MaxInFlight requests are awaited at once.
handleCancelAppointment == handleCancelAppointmentUpTo(MaxInFlight)

\* handleCancelAppointment of the four-state dialog up to its await: the
\* footer's Cancel Appointment button calls it at once; it asks for no
\* reason and a one-second timer stands in for the request.
handleCancelAppointment4 ==
  /\ variant = "V4"
  /\ MainDialog
  /\ ShowCancel(variant, role, appointment.status)
  /\ ~isLoading
  /\ Len(inFlight) < MaxInFlight
  /\ isLoading' = TRUE
  /\ inFlight' = Append(inFlight,
                        Request("mockCancel", "", "", FALSE, "", NoDate))
  /\ toast' = "none"
  /\ UNCHANGED <<config, now, srv, appointments, selectedAppointment, sameRef,
                 showDetailDialog, status, notes, cancelReason, showCancelDialog,
                 showRescheduleDialog, rescheduleDate, rescheduleTime>>

\* PUT /appointments/{id}/cancel with { reason } as the backend applies it.
ServerCancel(a, reason) ==
  [a EXCEPT !.status = "CANCELLED", !.cancellationReason = reason]

\* handleCancelAppointment after its await.
handleCancelAppointmentDone ==
  \E i \in 1..Len(inFlight) : \E ok \in BOOLEAN :
    /\ inFlight[i].kind = "cancel"
    /\ IF ~ok THEN Fail(i)
       ELSE /\ srv' = ServerCancel(srv, inFlight[i].reason)
            /\ Succeed(i, "cancelled")

\* The Reschedule button of the seven-state and five-state dialogs' footer,
\* disabled while isLoading, opens the reschedule dialog.
openRescheduleDialog ==
  /\ variant \in {"V7", "V5"}
  /\ MainDialog
  /\ ShowCancel(variant, role, appointment.status)
  /\ ~isLoading
  /\ showRescheduleDialog' = TRUE
  /\ toast' = "none"
  /\ UNCHANGED <<config, now, srv, appointments, selectedAppointment, sameRef,
                 showDetailDialog, status, notes, cancelReason, showCancelDialog,
                 rescheduleDate, rescheduleTime, isLoading, inFlight>>

\* The calendar: days before new Date() are disabled (a day counts from its
\* midnight, so today is disabled too); clicking the selected day clears it.
setRescheduleDate ==
  /\ showRescheduleDialog
  /\ \E date \in 0..MaxDay :
       /\ IF date = 0 THEN rescheduleDate # 0 ELSE ~(date <= now)
       /\ rescheduleDate' = date
  /\ toast' = "none"
  /\ UNCHANGED <<config, now, srv, appointments, selectedAppointment, sameRef,
                 showDetailDialog, status, notes, cancelReason, showCancelDialog,
                 showRescheduleDialog, rescheduleTime, isLoading, inFlight>>

setRescheduleTime ==
  /\ showRescheduleDialog
  /\ \E time \in Times \cup {""} : rescheduleTime' = time
  /\ toast' = "none"
  /\ UNCHANGED <<config, now, srv, appointments, selectedAppointment, sameRef,
                 showDetailDialog, status, notes, cancelReason, showCancelDialog,
                 showRescheduleDialog, rescheduleDate, isLoading, inFlight>>

\* The Cancel button of the reschedule dialog.
closeRescheduleDialog ==
  /\ showRescheduleDialog
  /\ showRescheduleDialog' = FALSE
  /\ toast' = "none"
  /\ UNCHANGED <<config, now, srv, appointments, selectedAppointment, sameRef,
                 showDetailDialog, status, notes, cancelReason, showCancelDialog,
                 rescheduleDate, rescheduleTime, isLoading, inFlight>>

\* dateUtils.toISOFormat(format(date, 'yyyy-MM-dd'), time).
toISOFormat(date, time) == <<date, "T", time, ":00">>

\* The five-state dialog's timestamp: the date part of
\* dateUtils.toBackendFormat(date), a space, the time.
toBackendDateTime(date, time) == <<date, " ", time, "">>

\* handleRescheduleAppointment up to its await, called on whatever the date
\* and time fields hold: the handler returns early without a date or a time
\* (its button is disabled without them too, and while isLoading).
handleRescheduleAppointmentUpTo(max) ==
  /\ variant \in {"V7", "V5"}
  /\ showRescheduleDialog
  /\ ~isLoading
  /\ IF rescheduleDate = 0 \/ rescheduleTime = ""
       THEN /\ toast' = "missing-datetime"
            /\ UNCHANGED <<isLoading, inFlight>>
       ELSE /\ Len(inFlight) < max
            /\ isLoading' = TRUE
            /\ inFlight' = Append(inFlight,
                 Request("reschedule", "", "", FALSE, "",
                         IF variant = "V7"
                           THEN toISOFormat(rescheduleDate, rescheduleTime)
                           ELSE toBackendDateTime(rescheduleDate, rescheduleTime)))
            /\ toast' = "none"
  /\ UNCHANGED <<config, now, srv, appointments, selectedAppointment, sameRef,
                 showDetailDialog, status, notes, cancelReason, showCancelDialog,
                 showRescheduleDialog, rescheduleDate, rescheduleTime>>

\* handleRescheduleAppointment where at most MaxInFlight requests are awaited at once.
handleRescheduleAppointment == handleRescheduleAppointmentUpTo(MaxInFlight)

\* The status a rescheduled appointment is left in is the backend's choice
\* among the statuses of the deployed version that name a schedulable
\* appointment.
RescheduledStatuses(v) == {"SCHEDULED", "RESCHEDULED"} \cap StatusesOf(v)

\* PUT /appointments/{id}/reschedule with { newDateTime } as the backend
\* applies it.
ServerReschedule(a, newDateTime, newStatus) ==
  [a EXCEPT !.appointmentDateTime = newDateTime, !.status = newStatus]

\* handleRescheduleAppointment after its await.
handleRescheduleAppointmentDone ==
  \E i \in 1..Len(inFlight) : \E ok \in BOOLEAN :
    /\ inFlight[i].kind = "reschedule"
    /\ IF ~ok THEN Fail(i)
       ELSE /\ \E newStatus \in RescheduledStatuses(variant) :
                 srv' = ServerReschedule(srv, inFlight[i].dateTime, newStatus)
            /\ Succeed(i, "rescheduled")

\* A day passes.
Tick ==
  /\ now < MaxDay
  /\ now' = now + 1
  /\ UNCHANGED <<config, srv, appointments, selectedAppointment, sameRef,
                 showDetailDialog, local, inFlight, toast>>

Next ==
  \/ login
  \/ fetchAppointments
  \/ handleAppointmentClick
  \/ handleStatusUpdate
  \/ handleStatusUpdateDone
  \/ setStatus
  \/ setNotes
  \/ closeDetailDialog
  \/ handleUpdateAppointment
  \/ handleSubmit
  \/ handleUpdateAppointment4
  \/ handleUpdateAppointmentStatusDone
  \/ handleUpdateAppointmentDone
  \/ mockDone
  \/ openCancelDialog
  \/ setCancelReason
  \/ closeCancelDialog
  \/ handleCancelAppointment
  \/ handleCancelAppointment4
  \/ handleCancelAppointmentDone
  \/ openRescheduleDialog
  \/ setRescheduleDate
  \/ setRescheduleTime
  \/ closeRescheduleDialog
  \/ handleRescheduleAppointment
  \/ handleRescheduleAppointmentDone
  \/ Tick

Spec == Init /\ [][Next]_vars

\* The seven-state page with a doctor or the help desk signed in, where up
\* to MaxBusy requests are awaited at once: those of the list's quick
\* actions and of the dialog's update and cancel, within one day.
InitBusy ==
  /\ variant = "V7"
  /\ backendRole \in {"ROLE_DOCTOR", "ROLE_HELPDESK"}
  /\ role = mapBackendRoleToFrontendRole(backendRole)
  /\ now = 1
  /\ srv \in InitialAppointments(variant)
  /\ appointments = NoAppt
  /\ selectedAppointment = NoAppt
  /\ sameRef = FALSE
  /\ showDetailDialog = FALSE
  /\ status = ""
  /\ notes = ""
  /\ cancelReason = ""
  /\ showCancelDialog = FALSE
  /\ showRescheduleDialog = FALSE
  /\ rescheduleDate = 0
  /\ rescheduleTime = ""
  /\ isLoading = FALSE
  /\ inFlight = <<>>
  /\ toast = "none"
  /\ AuthNotFollowed

NextBusy ==
  \/ fetchAppointments
  \/ handleAppointmentClick
  \/ handleStatusUpdateUpTo(MaxBusy)
  \/ handleStatusUpdateDone
  \/ setStatus
  \/ setNotes
  \/ closeDetailDialog
  \/ handleUpdateAppointmentUpTo(MaxBusy)
  \/ handleUpdateAppointmentStatusDone
  \/ handleUpdateAppointmentDone
  \/ openCancelDialog
  \/ setCancelReason
  \/ closeCancelDialog
  \/ handleCancelAppointmentUpTo(MaxBusy)
  \/ handleCancelAppointmentDone

SpecBusy == InitBusy /\ [][NextBusy]_vars

\* ------------------------------------------- the session and its token

\* The page's state, which the AuthProvider and apiCall leave alone.
page == <<variant, role, backendRole, srv, appointments, selectedAppointment,
          sameRef, showDetailDialog, local, inFlight, toast>>

\* The values localStorage 'token' may hold for the api module of
\* src/unnamed/part_006: text that is no JSON, JSON without a type, JSON
\* whose token is no JWT, and what setToken() writes.
StoredTokens ==
  {NoStoredToken,
   [form |-> "unparsable", exp |-> 0],
   [form |-> "undecodable", exp |-> 0]}
  \cup {[form |-> f, exp |-> e] : f \in {"noType", "jwt"}, e \in 1..(MaxDay + 1)}

\* The values localStorage 'token' may hold for src/unnamed/part_011: the
\* accessToken as the backend gave it.
RawTokens == {NoStoredToken} \cup {[form |-> "raw", exp |-> e] : e \in 1..(MaxDay + 1)}

\* getToken(): the token, or null after removing a stored value that does
\* not parse or lacks its token or type.
getToken(store) ==
  IF store.form = "absent" THEN [token |-> NoStoredToken, store |-> store]
  ELSE IF store.form \in {"unparsable", "noType"}
    THEN [token |-> NoStoredToken, store |-> NoStoredToken]
  ELSE [token |-> store, store |-> store]

\* isTokenValid that decodes the payload and does not read its exp claim.
isTokenValidWithoutExp(token) ==
  token.form = "jwt"

\* isTokenValid(): the payload decodes and exp * 1000 > Date.now().
isTokenValid(token) ==
  /\ token.form = "jwt"
  /\ token.exp > now

\* getDecodedToken(): the decoded payload of the stored token, or null.
getDecodedToken(store) ==
  IF store.form \in {"noType", "jwt"} THEN "payload" ELSE "null"

\* authAPI.getCurrentUser(): the user of the stored token, or "throws".
getCurrentUser(store) ==
  IF store.form = "absent" THEN "throws"
  ELSE IF store.form = "unparsable" THEN "throws"
  ELSE IF getDecodedToken(store) = "null" THEN "throws"
  ELSE "user"

\* The answers to a request: no answer (status 0); 200 with a body that is
\* JSON or is not; 204; 401 and 403, with a message in the body or without.
Responses ==
  {[status |-> 0, message |-> "", json |-> FALSE],
   [status |-> 200, message |-> "", json |-> TRUE],
   [status |-> 200, message |-> "", json |-> FALSE],
   [status |-> 204, message |-> "", json |-> FALSE]}
  \cup {[status |-> st, message |-> m, json |-> TRUE] :
          st \in {401, 403}, m \in {"", "Forbidden", "Session expired"}}

\* What apiCall returns or throws once its token was found valid.
apiCallOutcome(response) ==
  IF response.status = 0 THEN "Network error occurred"
  ELSE IF response.status = 401 THEN "Session expired"
  ELSE IF response.status \notin {200, 204}
    THEN LET message == IF response.message # "" THEN response.message
                        ELSE "API Error: 403"
         IN IF message = "Session expired" THEN message
            ELSE "Network error occurred"
  ELSE IF response.status = 204 THEN "null"
  ELSE IF response.json THEN "response"
  ELSE "SyntaxError"

\* apiCall of src/unnamed/part_006, with its answer.
apiCall ==
  /\ provider = "roles"
  /\ LET got == getToken(tokenStore)
     IN IF got.token = NoStoredToken
          THEN /\ tokenStore' = got.store
               /\ lastCall' = [sent |-> FALSE, status |-> 0,
                               outcome |-> "No authentication token found"]
        ELSE IF ~isTokenValid(got.token)
          THEN /\ tokenStore' = NoStoredToken
               /\ lastCall' = [sent |-> FALSE, status |-> 0,
                               outcome |-> "Token expired"]
        ELSE \E response \in Responses :
               /\ tokenStore' = IF response.status = 401 THEN NoStoredToken
                                ELSE tokenStore
               /\ lastCall' = [sent |-> TRUE, status |-> response.status,
                               outcome |-> apiCallOutcome(response)]
  /\ UNCHANGED <<page, now, provider, authState, authPc, userStore>>

\* authReducer whose LOGIN_FAILURE leaves the user in place.
authReducerKeepsUser(state, action) ==
  IF action.type = "LOGIN_SUCCESS"
    THEN [state EXCEPT !.user = action.payload, !.isAuthenticated = TRUE,
                       !.isLoading = FALSE]
  ELSE IF action.type = "LOGIN_FAILURE"
    THEN [state EXCEPT !.isAuthenticated = FALSE, !.isLoading = FALSE]
  ELSE IF action.type = "LOGOUT"
    THEN [state EXCEPT !.user = NoUser, !.isAuthenticated = FALSE,
                       !.isLoading = FALSE]
  ELSE IF action.type = "SET_LOADING"
    THEN [state EXCEPT !.isLoading = action.payload]
  ELSE state

\* authReducer of src/src/contexts/AuthContext.tsx.
authReducer(state, action) ==
  IF action.type = "LOGIN_SUCCESS"
    THEN [state EXCEPT !.user = action.payload, !.isAuthenticated = TRUE,
                       !.isLoading = FALSE]
  ELSE IF action.type = "LOGIN_FAILURE"
    THEN [state EXCEPT !.user = NoUser, !.isAuthenticated = FALSE,
                       !.isLoading = FALSE]
  ELSE IF action.type = "LOGOUT"
    THEN [state EXCEPT !.user = NoUser, !.isAuthenticated = FALSE,
                       !.isLoading = FALSE]
  ELSE IF action.type = "SET_LOADING"
    THEN [state EXCEPT !.isLoading = action.payload]
  ELSE state

\* The null payload of INITIALIZE.
NoPayload == [user |-> NoUser, token |-> NoStateToken]

\* authReducer of src/unnamed/part_011.
authReducerToken(state, action) ==
  IF action.type = "AUTH_START" THEN [state EXCEPT !.isLoading = TRUE]
  ELSE IF action.type = "AUTH_SUCCESS"
    THEN [state EXCEPT !.user = action.payload.user,
                       !.token = action.payload.token,
                       !.isLoading = FALSE, !.isAuthenticated = TRUE]
  ELSE IF action.type \in {"AUTH_FAILURE", "LOGOUT"}
    THEN [state EXCEPT !.user = NoUser, !.token = NoStateToken,
                       !.isLoading = FALSE, !.isAuthenticated = FALSE]
  ELSE IF action.type = "INITIALIZE"
    THEN IF action.payload # NoPayload
           THEN [state EXCEPT !.user = action.payload.user,
                              !.token = action.payload.token,
                              !.isLoading = FALSE, !.isAuthenticated = TRUE]
           ELSE [state EXCEPT !.isLoading = FALSE, !.isAuthenticated = FALSE]
  ELSE state

\* The mount effect of src/src/contexts/AuthContext.tsx: checkAuth.
checkAuth ==
  /\ provider = "roles"
  /\ authPc = "mount"
  /\ authPc' = "idle"
  /\ authState' =
       IF getCurrentUser(tokenStore) # "throws"
         THEN authReducer(authState,
                [type |-> "LOGIN_SUCCESS", payload |-> getCurrentUser(tokenStore)])
         ELSE authReducer(authState, [type |-> "LOGIN_FAILURE"])
  /\ UNCHANGED <<page, now, provider, tokenStore, userStore, lastCall>>

\* login of src/src/contexts/AuthContext.tsx up to its await.
loginStart ==
  /\ provider = "roles"
  /\ authPc = "idle"
  /\ authPc' = "login"
  /\ authState' = authReducer(authState, [type |-> "SET_LOADING", payload |-> TRUE])
  /\ UNCHANGED <<page, now, provider, tokenStore, userStore, lastCall>>

\* login after authAPI.signin: signin stores the token of a 200 answer,
\* which expires the next day, and throws on any other answer.
loginDone ==
  /\ provider = "roles"
  /\ authPc = "login"
  /\ authPc' = "idle"
  /\ \E ok \in BOOLEAN :
       IF ok
         THEN /\ tokenStore' = [form |-> "jwt", exp |-> now + 1]
              /\ authState' =
                   authReducer(
                     authReducer(authState,
                                 [type |-> "LOGIN_SUCCESS", payload |-> "user"]),
                     [type |-> "SET_LOADING", payload |-> FALSE])
         ELSE /\ tokenStore' = tokenStore
              /\ authState' =
                   authReducer(
                     authReducer(authState, [type |-> "LOGIN_FAILURE"]),
                     [type |-> "SET_LOADING", payload |-> FALSE])
  /\ UNCHANGED <<page, now, provider, userStore, lastCall>>

\* logout of src/src/contexts/AuthContext.tsx: authAPI.signout(), LOGOUT.
logout ==
  /\ provider = "roles"
  /\ authPc = "idle"
  /\ tokenStore' = NoStoredToken
  /\ authState' = authReducer(authState, [type |-> "LOGOUT"])
  /\ UNCHANGED <<page, now, provider, authPc, userStore, lastCall>>

\* The mount effect of src/unnamed/part_011: INITIALIZE from localStorage.
initialize ==
  /\ provider = "token"
  /\ authPc = "mount"
  /\ authPc' = "idle"
  /\ IF tokenStore # NoStoredToken /\ userStore # NoStoredUser
       THEN IF userStore # "unparsable"
              THEN /\ authState' = authReducerToken(authState,
                         [type |-> "INITIALIZE",
                          payload |-> [user |-> "user", token |-> "token"]])
                   /\ UNCHANGED <<tokenStore, userStore>>
              ELSE /\ authState' = authReducerToken(authState,
                         [type |-> "INITIALIZE", payload |-> NoPayload])
                   /\ tokenStore' = NoStoredToken
                   /\ userStore' = NoStoredUser
       ELSE /\ authState' = authReducerToken(authState,
                  [type |-> "INITIALIZE", payload |-> NoPayload])
            /\ UNCHANGED <<tokenStore, userStore>>
  /\ UNCHANGED <<page, now, provider, lastCall>>

\* login of src/unnamed/part_011 up to its await: AUTH_START.
loginTokenStart ==
  /\ provider = "token"
  /\ authPc = "idle"
  /\ authPc' = "login"
  /\ authState' = authReducerToken(authState, [type |-> "AUTH_START"])
  /\ UNCHANGED <<page, now, provider, tokenStore, userStore, lastCall>>

\* login of src/unnamed/part_011 after its fetch: a 200 answer's accessToken
\* and user are stored and dispatched, any other ends in AUTH_FAILURE.
loginTokenDone ==
  /\ provider = "token"
  /\ authPc = "login"
  /\ authPc' = "idle"
  /\ \E ok \in BOOLEAN :
       IF ok
         THEN /\ tokenStore' = [form |-> "raw", exp |-> now + 1]
              /\ userStore' = "user"
              /\ authState' = authReducerToken(authState,
                    [type |-> "AUTH_SUCCESS",
                     payload |-> [user |-> "user", token |-> "token"]])
         ELSE /\ authState' = authReducerToken(authState, [type |-> "AUTH_FAILURE"])
              /\ UNCHANGED <<tokenStore, userStore>>
  /\ UNCHANGED <<page, now, provider, lastCall>>

\* logout of src/unnamed/part_011: LOGOUT, whose reducer case clears the
\* storage.
logoutToken ==
  /\ provider = "token"
  /\ authPc = "idle"
  /\ tokenStore' = NoStoredToken
  /\ userStore' = NoStoredUser
  /\ authState' = authReducerToken(authState, [type |-> "LOGOUT"])
  /\ UNCHANGED <<page, now, provider, authPc, lastCall>>

\* The AuthProvider is mounted over whatever the browser's storage holds;
\* the page is not signed in to.
InitAuth ==
  /\ provider \in Providers
  /\ authState = IF provider = "roles" THEN initialState ELSE initialStateToken
  /\ authPc = "mount"
  /\ tokenStore \in IF provider = "roles" THEN StoredTokens ELSE RawTokens
  /\ userStore \in IF provider = "roles" THEN {NoStoredUser} ELSE StoredUsers
  /\ lastCall = NoCall
  /\ variant = "V7"
  /\ role = "NONE"
  /\ backendRole = NoBackendRole
  /\ now = 1
  /\ srv \in {a \in InitialAppointments(variant) : a.status = "SCHEDULED"}
  /\ appointments = NoAppt
  /\ selectedAppointment = NoAppt
  /\ sameRef = FALSE
  /\ showDetailDialog = FALSE
  /\ status = ""
  /\ notes = ""
  /\ cancelReason = ""
  /\ showCancelDialog = FALSE
  /\ showRescheduleDialog = FALSE
  /\ rescheduleDate = 0
  /\ rescheduleTime = ""
  /\ isLoading = FALSE
  /\ inFlight = <<>>
  /\ toast = "none"

NextAuth ==
  \/ checkAuth
  \/ loginStart
  \/ loginDone
  \/ logout
  \/ initialize
  \/ loginTokenStart
  \/ loginTokenDone
  \/ logoutToken
  \/ apiCall
  \/ Tick

SpecAuth == InitAuth /\ [][NextAuth]_vars

\* ------------------------------------------------- the lifecycle rules
\* The rules the properties below are stated against.

\* The statuses with no outgoing transition.
Terminal == {"COMPLETED", "CANCELLED", "NO_SHOW"}

\* The destinations the transition table permits from a status.
TransitionTable(s) ==
  IF s = "SCHEDULED"
    THEN {"CONFIRMED", "IN_PROGRESS", "CANCELLED", "NO_SHOW", "RESCHEDULED"}
  ELSE IF s = "CONFIRMED"
    THEN {"IN_PROGRESS", "CANCELLED", "NO_SHOW", "RESCHEDULED"}
  ELSE IF s = "IN_PROGRESS" THEN {"COMPLETED"}
  ELSE {}

\* The destinations a role may ask for from a status.
RolePermitted(r, s) ==
  IF r = "ADMIN" THEN allStatuses
  ELSE IF r = "DOCTOR" /\ s = "SCHEDULED" THEN {"CONFIRMED", "IN_PROGRESS", "NO_SHOW"}
  ELSE IF r = "DOCTOR" /\ s = "CONFIRMED" THEN {"IN_PROGRESS", "NO_SHOW"}
  ELSE IF r = "DOCTOR" /\ s = "IN_PROGRESS" THEN {"COMPLETED"}
  ELSE IF r = "HELPDESK" /\ s = "SCHEDULED" THEN {"CONFIRMED"}
  ELSE {}

\* The seven-state dialog is open on an appointment.
Shown == variant = "V7" /\ showDetailDialog /\ appointment # NoAppt

\* What the seven-state dialog offers for the appointment it shows, and the
\* destinations among it.
Offered == getAvailableStatuses(role, appointment.status)

Destinations == Offered \ {appointment.status}

\* The request the step has just put in flight.
Issued == inFlight'[Len(inFlight')]

\* The failures after which the same request must not be sent again: the
\* answers 401, 403, 404 and 409, of which the backend here gives 409.
TerminalFailures == {"API Error: 409"}

\* ------------------------------------------------------------ properties

\* C1: whenever the dialog shows an appointment whose status is terminal
\* (COMPLETED, CANCELLED, NO_SHOW), the statuses it offers are exactly the
\* current status, whatever the role.
C1_TerminalOffersOnlyCurrent ==
  (Shown /\ appointment.status \in Terminal) => Offered = {appointment.status}

\* C2: once the backend's appointment is COMPLETED, CANCELLED or NO_SHOW, no
\* step of any role changes its status again.
C2_TerminalStatusIsFinal ==
  [][srv.status \in Terminal => srv'.status = srv.status]_vars

\* C3: every status the dialog offers is one of the seven statuses, and
\* every offered status other than the current one is a destination the
\* transition table permits from the current status.
C3_OfferedWithinTable ==
  Shown => /\ Offered \subseteq allStatuses
           /\ Destinations \subseteq TransitionTable(appointment.status)

\* C4: the destinations the dialog offers are exactly those the transition
\* table permits from the current status and the role may ask for; when
\* there are none, the offered set is the current status alone and the
\* status selector is not rendered.
C4_OfferedIsTableAndRole ==
  Shown =>
    LET permitted == TransitionTable(appointment.status)
                       \cap RolePermitted(role, appointment.status)
    IN /\ Destinations = permitted
       /\ permitted = {} => /\ Offered = {appointment.status}
                            /\ ~canUpdateStatus(role, appointment.status)

\* C5: every status-change request the user interface issues, from a
\* quick-action button of the list or from the dialog's status selector,
\* asks for a status that getAvailableStatuses offers the role for the
\* appointment's current status.
C5_RequestsWithinOffered ==
  [][/\ handleStatusUpdate =>
          Issued.status \in getAvailableStatuses(role, appointments.status)
     /\ (handleUpdateAppointment /\ status # appointment.status) =>
          Issued.status \in getAvailableStatuses(role, appointment.status)]_vars

\* C6: the help desk is offered SCHEDULED and CONFIRMED for a SCHEDULED
\* appointment and the current status alone otherwise, and no status change
\* of the help desk moves the appointment to a status other than CONFIRMED.
C6_HelpdeskOnlyConfirms ==
  [][(variant = "V7" /\ role = "HELPDESK") =>
       /\ Shown => Offered = IF appointment.status = "SCHEDULED"
                               THEN {"SCHEDULED", "CONFIRMED"}
                               ELSE {appointment.status}
       /\ ((handleStatusUpdateDone \/ handleUpdateAppointmentStatusDone)
             /\ srv'.status # srv.status) => srv'.status = "CONFIRMED"]_vars

\* C7: a doctor is offered exactly CONFIRMED, IN_PROGRESS and NO_SHOW as
\* destinations from SCHEDULED, IN_PROGRESS and NO_SHOW from CONFIRMED,
\* COMPLETED from IN_PROGRESS and nothing from any other status; the status
\* selector of a doctor never holds CANCELLED or RESCHEDULED unless that is
\* the appointment's own status.
C7_DoctorDestinations ==
  (Shown /\ role = "DOCTOR") =>
    /\ Destinations =
         IF appointment.status = "SCHEDULED"
           THEN {"CONFIRMED", "IN_PROGRESS", "NO_SHOW"}
         ELSE IF appointment.status = "CONFIRMED" THEN {"IN_PROGRESS", "NO_SHOW"}
         ELSE IF appointment.status = "IN_PROGRESS" THEN {"COMPLETED"}
         ELSE {}
    /\ status \in {"CANCELLED", "RESCHEDULED"} => status = appointment.status

\* C7 happens: a doctor has moved the selector of a SCHEDULED appointment
\* to one of the destinations offered.
C7_Witness ==
  /\ Shown /\ role = "DOCTOR"
  /\ appointment.status = "SCHEDULED"
  /\ status = "NO_SHOW"

\* C8: the backend's appointment has a cancellation reason exactly when its
\* status is CANCELLED.
C8_ReasonIffCancelled ==
  (srv.cancellationReason # "") <=> (srv.status = "CANCELLED")

\* C9: a cancel handler called with a reason that is empty or blank shows
\* the missing-reason error, starts nothing and leaves the appointment as
\* it is, in every version of the dialog.
C9_BlankReasonIsRefused ==
  [][((handleCancelAppointment \/ handleCancelAppointment4)
        /\ trim(cancelReason) = "") =>
       /\ toast' = "missing-reason"
       /\ inFlight' = inFlight
       /\ srv' = srv]_vars

\* C10: a dialog offers cancellation, by its Cancel button or as a
\* destination of its status selector, only for an appointment whose
\* current status is SCHEDULED or CONFIRMED.
C10_CancelOfferedOnlyWhenOpen ==
  (/\ showDetailDialog
   /\ appointment # NoAppt
   /\ \/ ShowCancel(variant, role, appointment.status)
      \/ /\ CanUpdate(variant, role, appointment.status)
         /\ "CANCELLED" \in Available(variant, role, appointment.status)
                              \ {appointment.status})
    => appointment.status \in {"SCHEDULED", "CONFIRMED"}

\* The timestamp is not strictly after the time of the call: the clock is
\* read at the end of its day, after every time of day of Times.
NotInFuture(day) == day <= now

\* C11: the reschedule handler, called with a date and a time that are not
\* strictly after the time of the call, shows the past-date error and
\* issues no request, whoever the caller is.
C11_PastDateIsRefused ==
  [][(/\ handleRescheduleAppointment
      /\ rescheduleDate # 0
      /\ rescheduleTime # ""
      /\ NotInFuture(rescheduleDate)) =>
       /\ toast' = "past-date"
       /\ inFlight' = inFlight]_vars

\* The reschedule dialog of the seven-state dialog can be opened, or is open.
RescheduleOffered ==
  \/ Shown /\ showCancelButton(role, appointment.status)
  \/ variant = "V7" /\ showRescheduleDialog

\* C12 as stated: reschedule is offered exactly when the current status is
\* SCHEDULED or CONFIRMED and the role is ADMIN, DOCTOR or HELPDESK.
C12_RescheduleOfferedAsStated ==
  Shown =>
    (showCancelButton(role, appointment.status) <=>
       /\ appointment.status \in {"SCHEDULED", "CONFIRMED"}
       /\ role \in {"ADMIN", "DOCTOR", "HELPDESK"})

\* C12: reschedule is offered exactly when the current status is SCHEDULED
\* or CONFIRMED and the role is ADMIN or DOCTOR, or the current status is
\* SCHEDULED and the role is HELPDESK; the reschedule dialog is open in no
\* other case.
C12_RescheduleOffered ==
  (Shown \/ RescheduleOffered) =>
    (RescheduleOffered <=>
       \/ /\ appointment.status \in {"SCHEDULED", "CONFIRMED"}
          /\ role \in {"ADMIN", "DOCTOR"}
       \/ /\ appointment.status = "SCHEDULED"
          /\ role = "HELPDESK")

\* C12 happens: the help desk has opened the reschedule dialog of a
\* SCHEDULED appointment.
C12_Witness ==
  /\ Shown /\ role = "HELPDESK"
  /\ appointment.status = "SCHEDULED"
  /\ showRescheduleDialog

\* C14: for every role, the destinations the dialog offers from RESCHEDULED
\* are those it offers from SCHEDULED (the two statuses counted as one).
C14_RescheduledAsScheduled ==
  (Shown /\ appointment.status = "RESCHEDULED") =>
    Destinations \ {"SCHEDULED", "RESCHEDULED"}
      = getAvailableStatuses(role, "SCHEDULED") \ {"SCHEDULED", "RESCHEDULED"}

\* C15: the appointment's date and time change only by a reschedule: every
\* other request carries no date and time, and a step that changes those of
\* the backend's appointment is the answer to a reschedule request and sets
\* them to what that request carries.
C15_DateOnlyByReschedule ==
  [][/\ \A i \in 1..Len(inFlight') :
          inFlight'[i].kind # "reschedule" => inFlight'[i].dateTime = NoDate
     /\ srv'.appointmentDateTime # srv.appointmentDateTime =>
          \E i \in 1..Len(inFlight) :
            /\ inFlight[i].kind = "reschedule"
            /\ srv'.appointmentDateTime = inFlight[i].dateTime]_vars

\* C15 happens: the status and the notes were updated, or the appointment
\* was cancelled, and the appointment still has the date and time it had.
C15_Witness ==
  /\ toast \in {"updated", "cancelled"}
  /\ variant \in {"V7", "V5"}
  /\ srv.notes = "note" \/ srv.status = "CANCELLED"
  /\ srv.appointmentDateTime = <<1, " ", "09:00", "">>

\* C16: no handler issues, as a change of status, a request for the status
\* the appointment it shows already has.
C16_NoSameStatusRequest ==
  [][(handleUpdateAppointment \/ handleSubmit) =>
       ~(/\ Issued.kind \in {"updateStatus", "update"}
         /\ Issued.status = appointment.status)]_vars

C19_InputNotMutated ==
  [][/\ selectedAppointment' # selectedAppointment => handleAppointmentClick
     /\ appointments' # appointments => ~sameRef']_vars

\* C19 happens: a status change, cancel or reschedule has succeeded, the
\* list holds the backend's new appointment and the appointment the
\* handler was given still has its old fields.
C19_Witness ==
  /\ toast \in {"updated", "cancelled", "rescheduled"}
  /\ selectedAppointment # NoAppt
  /\ appointments = srv
  /\ \/ selectedAppointment.status # srv.status
     \/ selectedAppointment.appointmentDateTime # srv.appointmentDateTime
     \/ selectedAppointment.cancellationReason # srv.cancellationReason

\* C20: the role of a signed-in user is ADMIN for ROLE_ADMIN, DOCTOR for
\* ROLE_DOCTOR, HELPDESK for ROLE_HELPDESK and HELPDESK for every other
\* string, a differently cased one included; ADMIN and DOCTOR come from no
\* other string.
C20_RoleMapping ==
  backendRole # NoBackendRole =>
    /\ backendRole = "ROLE_ADMIN" <=> role = "ADMIN"
    /\ backendRole = "ROLE_DOCTOR" <=> role = "DOCTOR"
    /\ backendRole \notin {"ROLE_ADMIN", "ROLE_DOCTOR"} <=> role = "HELPDESK"

\* C20 happens: a user whose role string is role_admin has signed in and
\* works as HELPDESK.
C20_Witness ==
  /\ backendRole = "role_admin"
  /\ role = "HELPDESK"
  /\ showDetailDialog

\* C21: a user whose role is PATIENT, unknown or absent is offered the
\* current status alone for every appointment, in the dialog and in the
\* list: no status selector, no quick-action button, no Cancel and no
\* Reschedule button is rendered, no cancel or reschedule dialog is open,
\* the selector's value stays the appointment's status and no request is
\* awaited.
C21_NoRightsWithoutRole ==
  role \in {"PATIENT", "NONE"} =>
    /\ appointments # NoAppt => quickActions(role, appointments.status) = {}
    /\ (showDetailDialog /\ appointment # NoAppt) =>
         /\ Available(variant, role, appointment.status) = {appointment.status}
         /\ ~CanUpdate(variant, role, appointment.status)
         /\ ~ShowCancel(variant, role, appointment.status)
         /\ status = appointment.status
    /\ ~showCancelDialog
    /\ ~showRescheduleDialog
    /\ inFlight = <<>>

\* C21 happens: a patient has opened the seven-state dialog on a SCHEDULED
\* appointment.
C21_Witness ==
  /\ role = "PATIENT"
  /\ Shown
  /\ appointment.status = "SCHEDULED"

\* C22: after a request was rejected with a terminal failure, no request
\* is issued before the appointment was fetched again: the step taken from
\* a state whose last event is the toast of such a failure puts no request
\* in flight.
C22_RefetchAfterRejection ==
  [][(toast \in TerminalFailures) => Len(inFlight') <= Len(inFlight)]_vars

\* C23: whatever the five-state or four-state dialog offers for the
\* appointment it shows is one of the seven statuses and is offered by the
\* seven-state dialog to the same role for the same status.
C23_ReducedWithinSeven ==
  (variant \in {"V5", "V4"} /\ showDetailDialog /\ appointment # NoAppt) =>
    /\ Available(variant, role, appointment.status) \subseteq allStatuses
    /\ Available(variant, role, appointment.status)
         \subseteq getAvailableStatuses(role, appointment.status)

\* C24: for a role other than ADMIN, in every version of the dialog, the
\* status selector is rendered for the appointment shown exactly when the
\* statuses offered include one other than the appointment's own.
C24_SelectorIffDestination ==
  (role # "ADMIN" /\ showDetailDialog /\ appointment # NoAppt) =>
    (CanUpdate(variant, role, appointment.status)
       <=> Available(variant, role, appointment.status)
             \ {appointment.status} # {})

\* C25: handleUpdateAppointment of the seven-state dialog, with the status
\* and the notes both edited, issues the status request first and the notes
\* request only once the status request has succeeded; when a request of
\* the handler fails, the list is not fetched again and the dialog is not
\* closed, whatever was applied before; the list is fetched again only
\* with the success toast, after the handler's last request succeeded.
C25_StatusThenNotes ==
  [][variant = "V7" =>
       /\ (handleUpdateAppointment /\ status # appointment.status
             /\ notes # appointment.notes) =>
            /\ Issued.kind = "updateStatus"
            /\ Issued.thenNotes
       /\ \A i \in 1..Len(inFlight) :
            (/\ inFlight[i].kind = "updateStatus"
             /\ Len(inFlight') = Len(inFlight)
             /\ inFlight'[i].kind = "updateNotes") =>
              /\ inFlight[i].thenNotes
              /\ srv'.status = inFlight[i].status
              /\ appointments' = appointments
              /\ showDetailDialog' = showDetailDialog
       /\ ((handleUpdateAppointmentStatusDone \/ handleUpdateAppointmentDone)
             /\ Len(inFlight') < Len(inFlight)
             /\ toast' \in Failures) =>
            /\ appointments' = appointments
            /\ sameRef' = sameRef
            /\ showDetailDialog' = showDetailDialog
            /\ srv' = srv
       /\ ((handleUpdateAppointmentStatusDone \/ handleUpdateAppointmentDone)
             /\ (appointments' # appointments \/ sameRef' # sameRef)) =>
            /\ toast' = "updated"
            /\ appointments' = srv'
            /\ \A i \in 1..Len(inFlight') : ~inFlight'[i].live]_vars

\* C25 happens: the status request succeeded and the notes request failed;
\* the backend holds the new status, the list and the open dialog the old one.
C25_Witness ==
  /\ variant = "V7"
  /\ toast \in Failures
  /\ showDetailDialog
  /\ inFlight = <<>>
  /\ srv.status # appointments.status
  /\ srv.status = status
  /\ notes = "note" /\ srv.notes = ""
  /\ appointment = appointments

\* The requests awaited that a handler of the dialog issued.
DialogRequests == {i \in 1..Len(inFlight) : inFlight[i].kind # "quick"}

\* C26: at most one request issued by the dialog's update, cancel and
\* reschedule handlers is awaited at any time (the quick-action buttons of
\* the list are not counted: nothing guards them).
C26_OneDialogRequest ==
  Cardinality(DialogRequests) <= 1

StoredTokenUsable ==
  /\ tokenStore.form = "jwt"
  /\ tokenStore.exp > now

\* C28: an apiCall made while the stored token is missing, malformed or
\* expired sends nothing and fails with 'No authentication token found' or
\* 'Token expired'; a malformed or expired token, and the token of a call
\* answered 401, is removed from the storage; with nothing stored an
\* apiCall fails with 'No authentication token found' and stores nothing,
\* and only a sign-in puts a token into an empty storage.
C28_NoRequestWithoutToken ==
  [][/\ apiCall =>
          /\ ~StoredTokenUsable =>
               /\ ~lastCall'.sent
               /\ lastCall'.outcome \in {"No authentication token found",
                                         "Token expired"}
               /\ tokenStore' = NoStoredToken
          /\ (lastCall'.sent /\ lastCall'.status = 401) =>
               tokenStore' = NoStoredToken
          /\ tokenStore = NoStoredToken =>
               lastCall'.outcome = "No authentication token found"
     /\ (tokenStore = NoStoredToken /\ tokenStore' # NoStoredToken) =>
          (loginDone \/ loginTokenDone)]_vars

\* C28 happens: the user is signed in, the token was removed by an apiCall
\* and the next apiCall has failed for want of a token.
C28_Witness ==
  /\ provider = "roles"
  /\ authState.isAuthenticated
  /\ tokenStore = NoStoredToken
  /\ ~lastCall.sent
  /\ lastCall.outcome = "No authentication token found"

\* C29: an apiCall ends with the parsed response, with null (exactly for a
\* 204), or with one of the errors 'No authentication token found', 'Token
\* expired', 'Session expired' and 'Network error occurred'; 'Session
\* expired' exactly when the answer's status is 401, and 'Network error
\* occurred' for every other answer that is not ok.
C29_ApiCallOutcomes ==
  lastCall # NoCall =>
    /\ lastCall.outcome \in {"response", "null",
                             "No authentication token found", "Token expired",
                             "Session expired", "Network error occurred"}
    /\ lastCall.outcome = "null" <=> (lastCall.sent /\ lastCall.status = 204)
    /\ lastCall.outcome = "Session expired" <=>
         (lastCall.sent /\ lastCall.status = 401)
    /\ (lastCall.sent /\ lastCall.status \notin {200, 204, 401}) =>
         lastCall.outcome = "Network error occurred"

\* C30: once the AuthProvider's startup check is done and before any
\* sign-in, the session is authenticated only if a token is stored whose
\* exp lies ahead; with a missing, undecodable or expired token
\* isAuthenticated is false and the user is null.
C30_StartupNeedsLiveToken ==
  [][(checkAuth /\ ~(tokenStore.form \in {"jwt", "noType"}
                      /\ tokenStore.exp > now)) =>
       /\ ~authState'.isAuthenticated
       /\ authState'.user = NoUser]_vars

====
